---- MODULE Spec2Model ----
(***************************************************************************)
(* Booking core of the schedule manager: the shared schedules table, the   *)
(* per-browser CalendarContext with its local schedule list, the           *)
(* reservation modal (validation, conflict query, conflict dialog) and the *)
(* create paths of the calendar, vehicle and sample pages.                  *)
(*                                                                         *)
(* Time is counted in ticks from local midnight of day 0; a calendar day   *)
(* has DayLen ticks.  Each browser session (client) runs one handler at a  *)
(* time; handlers of different clients interleave at their database round  *)
(* trips.                                                                  *)
(***************************************************************************)
EXTENDS Integers, FiniteSets, Sequences, TLC

\* ------------------------------------------------------------------ bounds
MaxTime == 3
DayLen == 2
MaxNew == 2
MaxStmts == 3
SpecMaxTime == 1

\* ------------------------------------------------------- program constants
DailyCap == 10

Clients == {"c1", "c2"}
Users == {"u1", "u2"}
Pages == {"general", "vehicle", "sample"}
Times == 0..MaxTime

\* Equipment references: the same id under two kinds, so that the kind matters.
EquipmentRefs == {[id |-> "e1", type |-> "room"], [id |-> "e1", type |-> "vehicle"]}
EquipmentChoices == {{}} \cup {{e} : e \in EquipmentRefs}

\* ------------------------------------------------------------ conversions
\* Date.toISOString / new Date(iso): the column holds the instant as a string.
toISOString(d) == [iso |-> d]

parseISO(s) == s.iso

\* date-fns isSameDay on local dates
isSameDay(a, b) == (a \div DayLen) = (b \div DayLen)

\* row of the schedules table -> Schedule object of the context
convertSchedule(row) ==
  [id |-> row.id,
   startTime |-> parseISO(row.start_time),
   endTime |-> parseISO(row.end_time),
   participants |-> row.participants,
   equipment |-> row.equipment,
   reminders |-> row.reminders, recurrence |-> row.recurrence]

convertedSchedules(rows) == {convertSchedule(r) : r \in rows}

\* the row an insert writes for a form
insertRow(id, f) ==
  [id |-> id,
   start_time |-> toISOString(f.startTime),
   end_time |-> toISOString(f.endTime),
   participants |-> f.participants,
   equipment |-> f.equipment,
   reminders |-> f.reminders, recurrence |-> f.recurrence]

\* ------------------------------------------------------------- form data
\* recurrence: null (the select on 'none')
NoRecurrence == [frequency |-> "none", interval |-> 0, endType |-> "never", count |-> 0]

\* the recurrence the modal builds for a frequency, an end type and a count
Recurrence(frequency, endType, count) ==
  [frequency |-> frequency, interval |-> 1, endType |-> endType, count |-> count]

NullForm ==
  [title |-> "", startTime |-> 0, endTime |-> 0, participants |-> {}, equipment |-> {},
   reminders |-> <<>>, recurrence |-> NoRecurrence]

\* forms with the reminder list drawn from rems
FormsWith(times, rems) ==
  [title : {"", "t"}, startTime : times, endTime : times,
   participants : SUBSET Users, equipment : EquipmentChoices, reminders : rems,
   recurrence : {NoRecurrence}]

\* forms whose reminder list has been emptied
Forms(times) == FormsWith(times, {<<>>})

\* ---------------------------------------------------------- pure functions
\* CalendarContext.getSchedulesForDate
getSchedulesForDate(scheds, date) ==
  {s \in scheds :
     \/ isSameDay(s.startTime, date) \/ isSameDay(s.endTime, date)
     \/ (s.startTime < date /\ s.endTime > date)}

\* the capacity test with > in place of >=
dailyCapReachedStrict(count) == count > DailyCap

\* addSchedule: daySchedules.length >= 10
dailyCapReached(count) == count >= DailyCap

\* the overlap test without its third clause (candidate covering the schedule)
timeOverlapTwoClauses(startTime, endTime, schedule) ==
  \/ (startTime >= schedule.startTime /\ startTime < schedule.endTime)
  \/ (endTime > schedule.startTime /\ endTime <= schedule.endTime)

\* the three-clause overlap test of checkScheduleConflicts
timeOverlap(startTime, endTime, schedule) ==
  \/ (startTime >= schedule.startTime /\ startTime < schedule.endTime)
  \/ (endTime > schedule.startTime /\ endTime <= schedule.endTime)
  \/ (startTime <= schedule.startTime /\ endTime >= schedule.endTime)

participantConflict(participants, schedule) ==
  \E userId \in participants : userId \in schedule.participants

\* the equipment test comparing ids only
equipmentConflictIdOnly(equipment, schedule) ==
  \E eq \in equipment : \E schedEq \in schedule.equipment : schedEq.id = eq.id

equipmentConflict(equipment, schedule) ==
  \E eq \in equipment : \E schedEq \in schedule.equipment :
     schedEq.id = eq.id /\ schedEq.type = eq.type

\* CalendarContext.checkScheduleConflicts: the conflicts list
checkScheduleConflicts(scheds, startTime, endTime, participants, equipment) ==
  {schedule \in scheds :
     /\ timeOverlap(startTime, endTime, schedule)
     /\ (participantConflict(participants, schedule) \/ equipmentConflict(equipment, schedule))}

\* ReservationModal.checkConflicts: the query against the schedules table.
\* editId = 0 when no schedule is being edited; dbOk = FALSE when the query errors.
checkConflicts(rows, scheduleData, editId, dbOk) ==
  IF scheduleData.participants = {} THEN {}
  ELSE IF ~dbOk THEN {}
  ELSE {r \in rows :
          /\ r.participants \cap scheduleData.participants # {}
          /\ parseISO(r.end_time) >= scheduleData.startTime
          /\ parseISO(r.start_time) <= scheduleData.endTime
          /\ (editId # 0 => r.id # editId)}

\* the validation without the test of the window
validationErrorsNoWindow(pg, f, sampleOk) ==
  \/ f.title = ""
  \/ f.participants = {}
  \/ (pg = "vehicle" /\ f.equipment = {})
  \/ (pg = "sample" /\ ~sampleOk)

\* ReservationModal.handleSubmit: the validation errors (TRUE = some error)
validationErrors(pg, f, sampleOk) ==
  \/ f.title = ""
  \/ f.startTime >= f.endTime
  \/ f.participants = {}
  \/ (pg = "vehicle" /\ f.equipment = {})
  \/ (pg = "sample" /\ ~sampleOk)

\* the conflict definition of the booking rules: open-interval overlap and a
\* shared participant or an identical equipment reference (rows of the table)
rowsConflict(a, b) ==
  /\ parseISO(a.start_time) < parseISO(b.end_time)
  /\ parseISO(b.start_time) < parseISO(a.end_time)
  /\ \/ a.participants \cap b.participants # {}
     \/ a.equipment \cap b.equipment # {}

\* ------------------------------------------------- reminder planner (SQL)
\* a uuid[] column read as an array: the elements in a fixed order
RECURSIVE arrayOf(_)
arrayOf(S) ==
  IF S = {} THEN <<>>
  ELSE LET x == CHOOSE y \in S : TRUE IN <<x>> \o arrayOf(S \ {x})

\* the CASE over reminder_methods
notificationType(methods) ==
  IF "email" \in methods /\ "push" \in methods THEN "both"
  ELSE IF "email" \in methods THEN "email"
  ELSE IF "push" \in methods THEN "push"
  ELSE "email"

\* the past-due guard with >= in place of >
dueInFutureOrNow(scheduled_time, t) == scheduled_time >= t

\* IF scheduled_time > NOW()
dueInFuture(scheduled_time, t) == scheduled_time > t

\* the body of the inner loop without the past-due guard
reminderStepNoGuard(st, NEWROW, TG_OP, t, participant_id, reminder) ==
  LET reminder_time == reminder.time
      scheduled_time == parseISO(NEWROW.start_time) - reminder_time
      kept == IF TG_OP = "UPDATE"
              THEN {r \in st.rows :
                      ~(r.schedule_id = NEWROW.id /\ r.user_id = participant_id)}
              ELSE st.rows
  IN [rows |-> kept \cup
                {[id |-> st.nextId, schedule_id |-> NEWROW.id, user_id |-> participant_id,
                  reminder_time |-> reminder_time,
                  notification_type |-> notificationType(reminder.methods),
                  scheduled_for |-> scheduled_time, status |-> "pending"]},
      nextId |-> st.nextId + 1]

\* body of the inner loop of schedule_reminder_notifications for one
\* participant and one reminder; st = [rows, nextId] of scheduled_notifications
reminderStep(st, NEWROW, TG_OP, t, participant_id, reminder) ==
  LET reminder_time == reminder.time
      scheduled_time == parseISO(NEWROW.start_time) - reminder_time
  IN
  IF dueInFuture(scheduled_time, t)
  THEN LET kept == IF TG_OP = "UPDATE"
                   THEN {r \in st.rows :
                           ~(r.schedule_id = NEWROW.id /\ r.user_id = participant_id)}
                   ELSE st.rows
       IN [rows |-> kept \cup
                     {[id |-> st.nextId, schedule_id |-> NEWROW.id, user_id |-> participant_id,
                       reminder_time |-> reminder_time,
                       notification_type |-> notificationType(reminder.methods),
                       scheduled_for |-> scheduled_time, status |-> "pending"]},
           nextId |-> st.nextId + 1]
  ELSE st

\* FOR reminder IN SELECT * FROM jsonb_array_elements(NEW.reminders) LOOP, from element i
RECURSIVE reminderLoop(_, _, _, _, _, _)
reminderLoop(st, NEWROW, TG_OP, t, participant_id, i) ==
  IF i > Len(NEWROW.reminders) THEN st
  ELSE reminderLoop(reminderStep(st, NEWROW, TG_OP, t, participant_id, NEWROW.reminders[i]),
                    NEWROW, TG_OP, t, participant_id, i + 1)

\* FOREACH participant_id IN ARRAY NEW.participants LOOP, from element j
RECURSIVE participantLoop(_, _, _, _, _, _)
participantLoop(st, NEWROW, TG_OP, t, participants, j) ==
  IF j > Len(participants) THEN st
  ELSE participantLoop(reminderLoop(st, NEWROW, TG_OP, t, participants[j], 1),
                       NEWROW, TG_OP, t, participants, j + 1)

\* trigger function schedule_reminder_notifications (AFTER INSERT OR UPDATE)
schedule_reminder_notifications(st, NEWROW, TG_OP, t) ==
  IF Len(NEWROW.reminders) > 0
  THEN participantLoop(st, NEWROW, TG_OP, t, arrayOf(NEWROW.participants), 1)
  ELSE st

\* the BEFORE DELETE trigger function with its UPDATE left out
cancelNothing(rows, OLDROW) == rows

\* trigger function cancel_scheduled_notifications (BEFORE DELETE)
cancel_scheduled_notifications(rows, OLDROW) ==
  {IF r.schedule_id = OLDROW.id /\ r.status = "pending"
   THEN [r EXCEPT !.status = "cancelled"] ELSE r : r \in rows}

\* status ... CHECK (status IN ('pending', 'sent', 'failed', 'cancelled'))
StatusValues == {"pending", "sent", "failed", "cancelled"}

statusCheck(status) == status \in StatusValues

\* schedule_id REFERENCES schedules(id) ON DELETE CASCADE
onDeleteCascade(rows, OLDROW) == {r \in rows : r.schedule_id # OLDROW.id}

\* ---------------------------------------------------- notification service
\* the schedule categories of NotificationCategory
Categories ==
  {"schedule_created", "schedule_updated", "schedule_deleted", "schedule_reminder"}

\* a TIME value as minutes after midnight
minutes(h, m) == h * 60 + m

\* the row of notification_preferences that the column defaults give a user
\* (no push subscription, quiet hours off with no window)
DefaultPreferences ==
  [emailEnabled |-> TRUE, emailScheduleCreated |-> TRUE, emailScheduleUpdated |-> TRUE,
   emailScheduleDeleted |-> TRUE, emailScheduleReminder |-> TRUE,
   pushEnabled |-> FALSE, pushScheduleCreated |-> TRUE, pushScheduleUpdated |-> TRUE,
   pushScheduleDeleted |-> TRUE, pushScheduleReminder |-> TRUE,
   pushSubscription |-> FALSE,
   quietHoursEnabled |-> FALSE, quietHoursStart |-> -1, quietHoursEnd |-> -1]

\* getUserPreferences: the row of the user, or nothing when the query fails
getUserPreferences(table, userId, ok) == IF ok THEN {table[userId]} ELSE {}

\* getNotificationCategory: categoryMap[templateName] || 'schedule_created'
getNotificationCategory(templateName) ==
  IF templateName \in Categories THEN templateName ELSE "schedule_created"

\* getCategoryFromData: typeMap[data.type] || 'schedule_created'
getCategoryFromData(type) ==
  IF type \in Categories THEN type ELSE "schedule_created"

\* logNotification: one INSERT into notification_logs (is_read and read_at
\* take their defaults); an insert error is printed and nothing is thrown
logNotification(st, log, insertOk) ==
  IF insertOk
  THEN [st EXCEPT !.logs = @ \cup
                    {[id |-> st.nextLogId, user_id |-> log.userId, type |-> log.type,
                      category |-> log.category, status |-> log.status,
                      error_message |-> log.errorMessage,
                      is_read |-> FALSE, read_at |-> -1]},
                  !.nextLogId = @ + 1]
  ELSE st

\* one call of an edge function, as the history keeps it: what was asked,
\* what the call met, the rows logged for it and the result returned
attempt(st, channel, request, category, env, ok, after) ==
  [n |-> Cardinality(st.sends) + 1, channel |-> channel, userId |-> request.userId,
   category |-> category, at |-> request.at, ok |-> ok, env |-> env,
   returned |-> after.result,
   logged |-> {r \in after.logs : r.id \notin {q.id : q \in st.logs}}]

\* sendEmail with nothing logged when the send fails
sendEmailFailureUnlogged(st, request, env) ==
  LET category == getNotificationCategory(request.templateName)
      logged == IF request.userId # "" /\ env.emailOk
                THEN logNotification(st, [userId |-> request.userId, type |-> "email",
                                          category |-> category, status |-> "sent",
                                          errorMessage |-> ""], env.logOk)
                ELSE st
      done == [logged EXCEPT !.result = IF env.emailOk THEN "success" ELSE "failure"]
  IN [done EXCEPT
        !.sends = @ \cup {attempt(st, "email", request, category, env, env.emailOk, done)}]

\* sendEmail: the send-email function is invoked; on success a 'sent' row is
\* logged, on an error a 'failed' row with the error message (both only for a
\* request that names a user); the result is returned, nothing is thrown
sendEmail(st, request, env) ==
  LET category == getNotificationCategory(request.templateName)
      logged == IF request.userId # ""
                THEN logNotification(st, [userId |-> request.userId, type |-> "email",
                                          category |-> category,
                                          status |-> IF env.emailOk THEN "sent" ELSE "failed",
                                          errorMessage |-> IF env.emailOk THEN "" ELSE "error"],
                                     env.logOk)
                ELSE st
      done == [logged EXCEPT !.result = IF env.emailOk THEN "success" ELSE "failure"]
  IN [done EXCEPT
        !.sends = @ \cup {attempt(st, "email", request, category, env, env.emailOk, done)}]

\* sendPush: the preferences are loaded again; without them, with push off or
\* without a subscription the call returns a failure at once; otherwise the
\* send-push function is invoked and a 'sent' or a 'failed' row is logged
sendPush(st, table, request, env) ==
  LET preferences == getUserPreferences(table, request.userId, env.pushPrefsOk)
      p == CHOOSE x \in preferences : TRUE
      category == getCategoryFromData(request.type)
      logged == logNotification(st, [userId |-> request.userId, type |-> "push",
                                     category |-> category,
                                     status |-> IF env.pushOk THEN "sent" ELSE "failed",
                                     errorMessage |-> IF env.pushOk THEN "" ELSE "error"],
                                env.logOk)
      done == [logged EXCEPT !.result = IF env.pushOk THEN "success" ELSE "failure"]
  IN IF preferences = {} \/ ~p.pushEnabled \/ ~p.pushSubscription
     THEN [st EXCEPT !.result = "failure"]
     ELSE [done EXCEPT
             !.sends = @ \cup {attempt(st, "push", request, category, env, env.pushOk, done)}]

\* the two guarded sends that end every notifySchedule... function
guardedSends(st, table, userId, category, at, env, email, push) ==
  LET st1 == IF email
             THEN sendEmail(st, [userId |-> userId, templateName |-> category, at |-> at], env)
             ELSE st
  IN IF push
     THEN sendPush(st1, table, [userId |-> userId, type |-> category, at |-> at], env)
     ELSE st1

\* notifyScheduleCreated: the in-app row is logged first, then the
\* preferences are loaded and each channel is sent if its two toggles are on
notifyScheduleCreated(st, table, userId, at, env) ==
  LET st0 == logNotification(st, [userId |-> userId, type |-> "email",
                                  category |-> "schedule_created", status |-> "sent",
                                  errorMessage |-> ""], env.logOk)
      preferences == getUserPreferences(table, userId, env.prefsOk)
      p == CHOOSE x \in preferences : TRUE
  IN IF preferences = {} THEN st0
     ELSE guardedSends(st0, table, userId, "schedule_created", at, env,
                       p.emailEnabled /\ p.emailScheduleCreated,
                       p.pushEnabled /\ p.pushScheduleCreated)

\* notifyScheduleUpdated testing the category toggles only
notifyScheduleUpdatedCategoryOnly(st, table, userId, at, env) ==
  LET preferences == getUserPreferences(table, userId, env.prefsOk)
      p == CHOOSE x \in preferences : TRUE
  IN IF preferences = {} THEN st
     ELSE guardedSends(st, table, userId, "schedule_updated", at, env,
                       p.emailScheduleUpdated, p.pushScheduleUpdated)

notifyScheduleUpdated(st, table, userId, at, env) ==
  LET preferences == getUserPreferences(table, userId, env.prefsOk)
      p == CHOOSE x \in preferences : TRUE
  IN IF preferences = {} THEN st
     ELSE guardedSends(st, table, userId, "schedule_updated", at, env,
                       p.emailEnabled /\ p.emailScheduleUpdated,
                       p.pushEnabled /\ p.pushScheduleUpdated)

notifyScheduleDeleted(st, table, userId, at, env) ==
  LET preferences == getUserPreferences(table, userId, env.prefsOk)
      p == CHOOSE x \in preferences : TRUE
  IN IF preferences = {} THEN st
     ELSE guardedSends(st, table, userId, "schedule_deleted", at, env,
                       p.emailEnabled /\ p.emailScheduleDeleted,
                       p.pushEnabled /\ p.pushScheduleDeleted)

notifyScheduleReminder(st, table, userId, at, env) ==
  LET preferences == getUserPreferences(table, userId, env.prefsOk)
      p == CHOOSE x \in preferences : TRUE
  IN IF preferences = {} THEN st
     ELSE guardedSends(st, table, userId, "schedule_reminder", at, env,
                       p.emailEnabled /\ p.emailScheduleReminder,
                       p.pushEnabled /\ p.pushScheduleReminder)

\* markAllNotificationsAsRead without the user filter
markAllNotificationsAsReadEveryUser(logs, userId, at, ok) ==
  IF ok
  THEN {IF ~r.is_read THEN [r EXCEPT !.is_read = TRUE, !.read_at = at] ELSE r : r \in logs}
  ELSE logs

\* markAllNotificationsAsRead: UPDATE ... SET is_read, read_at WHERE user_id =
\* userId AND is_read = false
markAllNotificationsAsRead(logs, userId, at, ok) ==
  IF ok
  THEN {IF r.user_id = userId /\ ~r.is_read
        THEN [r EXCEPT !.is_read = TRUE, !.read_at = at] ELSE r : r \in logs}
  ELSE logs

\* markNotificationAsRead: UPDATE ... SET is_read, read_at WHERE id = notificationId
markNotificationAsRead(logs, notificationId, at, ok) ==
  IF ok
  THEN {IF r.id = notificationId
        THEN [r EXCEPT !.is_read = TRUE, !.read_at = at] ELSE r : r \in logs}
  ELSE logs

\* what a participant's notification meets: userOk = the users row is found,
\* throws = the notify call raises, prefsOk / pushPrefsOk = the preferences
\* load (in the notify function / in sendPush), emailOk / pushOk = the edge
\* function succeeds, logOk = the inserts into notification_logs succeed
NullEnv ==
  [userOk |-> FALSE, throws |-> FALSE, prefsOk |-> FALSE, pushPrefsOk |-> FALSE,
   emailOk |-> FALSE, pushOk |-> FALSE, logOk |-> FALSE]

\* addSchedule, one participant of participants.map(async ...): without the
\* users row the participant is skipped; an error of notifyScheduleCreated
\* is caught and printed
notifyCreatedStep(st, table, participantId, at, env) ==
  IF ~env.userOk THEN st
  ELSE IF env.throws THEN st
  ELSE notifyScheduleCreated(st, table, participantId, at, env)

\* updateSchedule, one participant of its notification loop
notifyUpdatedStep(st, table, participantId, at, env) ==
  IF ~env.userOk THEN st
  ELSE IF env.throws THEN [st EXCEPT !.thrown = TRUE]
  ELSE notifyScheduleUpdated(st, table, participantId, at, env)

RECURSIVE notifyCreatedLoop(_, _, _, _, _, _)
notifyCreatedLoop(st, table, participants, i, at, envs) ==
  IF i > Len(participants) THEN st
  ELSE notifyCreatedLoop(
         notifyCreatedStep(st, table, participants[i], at, envs[participants[i]]),
         table, participants, i + 1, at, envs)

RECURSIVE notifyUpdatedLoop(_, _, _, _, _, _)
notifyUpdatedLoop(st, table, participants, i, at, envs) ==
  IF i > Len(participants) THEN st
  ELSE notifyUpdatedLoop(
         notifyUpdatedStep(st, table, participants[i], at, envs[participants[i]]),
         table, participants, i + 1, at, envs)

\* the notification loop stopping at the first participant it fails for
notifyCreatedUntilFailure(st, table, participants, at, envs) ==
  LET failing == {i \in 1..Len(participants) :
                    ~envs[participants[i]].userOk \/ envs[participants[i]].throws}
      first == IF failing = {} THEN Len(participants) + 1
               ELSE CHOOSE i \in failing : \A j \in failing : i <= j
  IN notifyCreatedLoop(st, table, SubSeq(participants, 1, first - 1), 1, at, envs)

\* addSchedule: await Promise.all(participantPromises) inside its own try
notifyCreated(st, table, participants, at, envs) ==
  notifyCreatedLoop(st, table, participants, 1, at, envs)

\* updateSchedule: await Promise.all(participantPromises); a rejection is
\* caught by the try around the notifications
notifyUpdated(st, table, participants, at, envs) ==
  [notifyUpdatedLoop(st, table, participants, 1, at, envs) EXCEPT !.thrown = FALSE]

\* ------------------------------------------------------- leave requests
\* handleSubmit: the approver list of a new request: the group approvers at
\* step 1, then the president at step 2 unless he is one of them (president
\* is the set holding the president, empty when users has none)
allApprovers(approvers, president) ==
  {[userId |-> a, status |-> "pending", step |-> 1] : a \in approvers}
    \cup {[userId |-> p, status |-> "pending", step |-> 2] : p \in president \ approvers}

\* handleApproval: the loaded approver list with the current user's entry set
updatedApprovers(request, currentUser, approved) ==
  {IF approver.userId = currentUser
   THEN [approver EXCEPT !.status = IF approved THEN "approved" ELSE "rejected"]
   ELSE approver : approver \in request.approvers}

\* handleApproval: the status worked out from the updated approver list
newStatus(approvers) ==
  LET step1Approvers == {a \in approvers : a.step = 1}
      step2Approvers == {a \in approvers : a.step = 2}
      step1AllApproved == step1Approvers # {} /\ \A a \in step1Approvers : a.status = "approved"
      step1AnyRejected == \E a \in step1Approvers : a.status = "rejected"
      step2AllApproved == step2Approvers = {} \/ \A a \in step2Approvers : a.status = "approved"
      step2AnyRejected == \E a \in step2Approvers : a.status = "rejected"
  IN IF step1AnyRejected \/ step2AnyRejected THEN "rejected"
     ELSE IF step1AllApproved /\ step2AllApproved THEN "approved"
     ELSE "pending"

\* ------------------------------------------------------------------ state
VARIABLES
  db,                   \* the schedules table: a set of rows
  nextId,               \* next primary key the table hands out
  schedules,            \* per client: the context's local schedule list
  pc,                   \* per client: "idle", "inserting" / "updating" (round trip in
                        \* flight) or "returned" (the handler has returned)
  page,                 \* per client: the page whose modal is submitting
  formData,             \* per client: the modal's form while a submit is pending
  showConflictModal,    \* per client: the modal's conflict dialog is open
  conflictingSchedules, \* per client: rows listed in the open conflict dialog
  pending,              \* per client: history of the submit in flight
  modalCheck,           \* per client: history of the last checkConflicts call
  ctxCheck,             \* per client: history of the last addSchedule checks
  log,                  \* history of every row inserted in this run
  editingSchedule,      \* per client: id of the schedule open in the modal, 0 = new
  scheduled_notifications, \* the scheduled_notifications table: a set of rows
  nextSnId,             \* next primary key of scheduled_notifications
  now,                  \* the database clock NOW()
  lastStmt,             \* history of the last statement run on the schedules table
  scheduler,            \* per client: the notification scheduler of the browser tab
  notification_preferences, \* the notification_preferences table: user -> row
  notification_logs,    \* the notification_logs table: a set of rows
  nextLogId,            \* next primary key of notification_logs
  sends,                \* history: the edge-function calls of the last service call
  lastCall,             \* history: the last call of the notification service
  leave_requests,       \* the leave_requests table: a set of rows
  nextLeaveId,          \* next primary key of leave_requests
  leaveRequests,        \* per person: the list loaded by the LeaveRequests page
  decisions             \* history: the decisions handleApproval has stored

reminderVars == <<scheduled_notifications, nextSnId, now, lastStmt, scheduler>>

notifyVars == <<notification_preferences, notification_logs, nextLogId, sends, lastCall>>

leaveVars == <<leave_requests, nextLeaveId, leaveRequests, decisions>>

vars == <<db, nextId, schedules, pc, page, formData, showConflictModal,
          conflictingSchedules, pending, modalCheck, ctxCheck, log,
          editingSchedule, scheduled_notifications, nextSnId, now, lastStmt, scheduler,
          notification_preferences, notification_logs, nextLogId, sends, lastCall,
          leave_requests, nextLeaveId, leaveRequests, decisions>>

NullPending ==
  [path |-> "none", capChecked |-> FALSE, ctxChecked |-> FALSE, modalChecked |-> FALSE,
   confirmed |-> FALSE, seen |-> {}, checkEmpty |-> FALSE, dayCount |-> 0]

NullModalCheck ==
  [ran |-> FALSE, ok |-> FALSE, cand |-> NullForm, editId |-> 0, against |-> {}, result |-> {}]

NullStmt ==
  [n |-> 0, op |-> "none", OLDROW |-> {}, NEWROW |-> {}, at |-> 0, before |-> {}, cancelled |-> {}]

\* the scheduler of a tab: mounted = App's effect has run, started = its
\* interval is running, pc / row / won = the claim call in progress
NullScheduler == [mounted |-> FALSE, started |-> FALSE, pc |-> "idle", row |-> 0, won |-> FALSE]

\* the staff: the users and the president
People == Users \cup {"president"}

NullCall ==
  [n |-> 0, op |-> "none", userId |-> "", id |-> 0, at |-> 0, env |-> NullEnv,
   envs |-> [u \in Users |-> NullEnv], result |-> "none"]

\* what a call of the notification service starts from
serviceState ==
  [logs |-> notification_logs, nextLogId |-> nextLogId, sends |-> {}, result |-> "none",
   thrown |-> FALSE]

NullCtxCheck ==
  [ran |-> FALSE, cand |-> NullForm, against |-> {}, checked |-> FALSE,
   conflicts |-> {}, count |-> 0, returned |-> "none"]

ids(rows) == {r.id : r \in rows}

\* the largest primary key handed out so far
maxId(rows) == IF rows = {} THEN 0 ELSE CHOOSE i \in ids(rows) : \A j \in ids(rows) : j <= i

\* rows present before the run: bookings 0..1 of user u1 with vehicle e1 on day 0
FillerRow(i) ==
  [id |-> i, start_time |-> toISOString(0), end_time |-> toISOString(1),
   participants |-> {"u1"}, equipment |-> {[id |-> "e1", type |-> "vehicle"]},
   reminders |-> <<>>, recurrence |-> NoRecurrence]

\* number of creates and updates issued so far (done or in flight)
issued == Cardinality(log) + Cardinality({c \in Clients : pc[c] \in {"inserting", "updating"}})

\* the notification tables before the run
InitService(table, logs) ==
  /\ notification_preferences = table
  /\ notification_logs = logs
  /\ nextLogId = maxId(logs) + 1
  /\ sends = {}
  /\ lastCall = NullCall

\* no leave request yet, every page loaded on the empty table
InitLeave ==
  /\ leave_requests = {}
  /\ nextLeaveId = 1
  /\ leaveRequests = [u \in People |-> {}]
  /\ decisions = {}

InitSchedules(rows, notifications, started) ==
  /\ db = rows
  /\ nextId = Cardinality(rows) + 1
  /\ schedules = [c \in Clients |-> convertedSchedules(rows)]
  /\ pc = [c \in Clients |-> "idle"]
  /\ page = [c \in Clients |-> "general"]
  /\ formData = [c \in Clients |-> NullForm]
  /\ showConflictModal = [c \in Clients |-> FALSE]
  /\ conflictingSchedules = [c \in Clients |-> {}]
  /\ pending = [c \in Clients |-> NullPending]
  /\ modalCheck = [c \in Clients |-> NullModalCheck]
  /\ ctxCheck = [c \in Clients |-> NullCtxCheck]
  /\ log = {}
  /\ editingSchedule = [c \in Clients |-> 0]
  /\ scheduled_notifications = notifications
  /\ nextSnId = maxId(notifications) + 1
  /\ now = 0
  /\ lastStmt = NullStmt
  /\ scheduler = [c \in Clients |-> [NullScheduler EXCEPT !.started = started]]

\* the tables before the run, every user with the default preferences
InitTables(rows, notifications, started) ==
  /\ InitSchedules(rows, notifications, started)
  /\ InitService([u \in Users |-> DefaultPreferences], {})
  /\ InitLeave

InitWith(rows) == InitTables(rows, {}, FALSE)

\* ------------------------------------------------- statements on schedules
\* INSERT INTO schedules, with the AFTER INSERT trigger
schedulesInsert(row) ==
  LET st == schedule_reminder_notifications(
              [rows |-> scheduled_notifications, nextId |-> nextSnId], row, "INSERT", now)
  IN
  /\ db' = db \cup {row}
  /\ nextId' = nextId + 1
  /\ scheduled_notifications' = st.rows
  /\ nextSnId' = st.nextId
  /\ lastStmt' = [n |-> lastStmt.n + 1, op |-> "INSERT", OLDROW |-> {}, NEWROW |-> {row}, at |-> now,
                  before |-> scheduled_notifications, cancelled |-> {}]
  /\ UNCHANGED <<now, scheduler, leaveVars>>

\* UPDATE schedules SET ... WHERE id = row.id, with the AFTER UPDATE trigger
schedulesUpdate(row) ==
  LET old == {r \in db : r.id = row.id}
      st == IF old = {} THEN [rows |-> scheduled_notifications, nextId |-> nextSnId]
            ELSE schedule_reminder_notifications(
                   [rows |-> scheduled_notifications, nextId |-> nextSnId], row, "UPDATE", now)
  IN
  /\ db' = IF old = {} THEN db ELSE (db \ old) \cup {row}
  /\ scheduled_notifications' = st.rows
  /\ nextSnId' = st.nextId
  /\ lastStmt' = [n |-> lastStmt.n + 1, op |-> "UPDATE", OLDROW |-> old, NEWROW |-> IF old = {} THEN {} ELSE {row},
                  at |-> now, before |-> scheduled_notifications, cancelled |-> {}]
  /\ UNCHANGED <<nextId, now, scheduler, leaveVars>>

\* DELETE FROM schedules WHERE id = id: the BEFORE DELETE trigger, then the
\* row is removed and the delete cascades to scheduled_notifications
schedulesDelete(id) ==
  LET old == {r \in db : r.id = id}
      OLDROW == CHOOSE r \in old : TRUE
      afterTrigger == IF old = {} THEN scheduled_notifications
                      ELSE cancel_scheduled_notifications(scheduled_notifications, OLDROW)
  IN
  /\ db' = db \ old
  /\ scheduled_notifications' = IF old = {} THEN scheduled_notifications
                                ELSE onDeleteCascade(afterTrigger, OLDROW)
  /\ lastStmt' = [n |-> lastStmt.n + 1, op |-> "DELETE", OLDROW |-> old, NEWROW |-> {}, at |-> now,
                  before |-> scheduled_notifications,
                  cancelled |-> {r.id : r \in {q \in afterTrigger : q.status = "cancelled"}}
                                  \ {r.id : r \in {q \in scheduled_notifications :
                                                     q.status = "cancelled"}}]
  /\ UNCHANGED <<nextId, nextSnId, now, scheduler, leaveVars>>

\* ---------------------------------------------------------------- actions
\* CalendarContext.addSchedule up to its first await: capacity check, conflict
\* check, window.confirm (proceed), required-field check, then the insert is issued.
addScheduleStart(c, f, conf, seenModal, modalEmpty, proceed) ==
  LET daySchedules == getSchedulesForDate(schedules[c], f.startTime)
      count == Cardinality(daySchedules)
      conflicts == checkScheduleConflicts(schedules[c], f.startTime, f.endTime,
                                          f.participants, f.equipment)
      returned == IF dailyCapReached(count) THEN "capacity"
                  ELSE IF conflicts # {} /\ ~proceed THEN "declined"
                  ELSE IF f.title = "" THEN "missing"
                  ELSE "issued"
  IN
  /\ ctxCheck' = [ctxCheck EXCEPT ![c] =
        [ran |-> TRUE, cand |-> f, against |-> schedules[c],
         checked |-> (returned # "capacity"),
         conflicts |-> IF returned = "capacity" THEN {} ELSE conflicts,
         count |-> count, returned |-> returned]]
  /\ IF returned = "issued"
     THEN /\ issued < MaxNew
          /\ pc' = [pc EXCEPT ![c] = "inserting"]
          /\ formData' = [formData EXCEPT ![c] = f]
          /\ pending' = [pending EXCEPT ![c] =
               [path |-> "addSchedule", capChecked |-> TRUE, ctxChecked |-> TRUE,
                modalChecked |-> TRUE,
                confirmed |-> (conf \/ conflicts # {}),
                seen |-> seenModal \cup {s.id : s \in schedules[c]},
                checkEmpty |-> (modalEmpty /\ conflicts = {}),
                dayCount |-> count]]
     ELSE /\ pc' = [pc EXCEPT ![c] = "returned"]
          /\ formData' = [formData EXCEPT ![c] = NullForm]
          /\ pending' = [pending EXCEPT ![c] = NullPending]

\* VehicleReservation / SampleReservation handleReservationSubmit up to its
\* first await: the insert is issued at once.
handleReservationSubmitStart(c, f, conf, seenModal, modalEmpty) ==
  /\ issued < MaxNew
  /\ pc' = [pc EXCEPT ![c] = "inserting"]
  /\ formData' = [formData EXCEPT ![c] = f]
  /\ pending' = [pending EXCEPT ![c] =
       [path |-> "handleReservationSubmit", capChecked |-> FALSE, ctxChecked |-> FALSE,
        modalChecked |-> TRUE, confirmed |-> conf, seen |-> seenModal,
        checkEmpty |-> modalEmpty, dayCount |-> 0]]
  /\ UNCHANGED ctxCheck

\* CalendarContext.updateSchedule up to its first await: the update is issued
\* unless the schedule is missing from the local list.
updateScheduleStart(c, f, conf, seenModal, modalEmpty) ==
  LET originalSchedule == {s \in schedules[c] : s.id = editingSchedule[c]} IN
  /\ IF originalSchedule = {}
     THEN /\ pc' = [pc EXCEPT ![c] = "returned"]
          /\ formData' = [formData EXCEPT ![c] = NullForm]
          /\ pending' = [pending EXCEPT ![c] = NullPending]
     ELSE /\ issued < MaxNew
          /\ pc' = [pc EXCEPT ![c] = "updating"]
          /\ formData' = [formData EXCEPT ![c] = f]
          /\ pending' = [pending EXCEPT ![c] =
               [path |-> "updateSchedule", capChecked |-> FALSE, ctxChecked |-> FALSE,
                modalChecked |-> TRUE, confirmed |-> conf, seen |-> seenModal,
                checkEmpty |-> modalEmpty, dayCount |-> 0]]
  /\ UNCHANGED ctxCheck

\* the modal's onSubmit prop, then onClose and setShowConflictModal(false)
onSubmit(c, pg, f, conf, seenModal, modalEmpty, proceed) ==
  /\ IF pg = "general"
     THEN IF editingSchedule[c] # 0
          THEN updateScheduleStart(c, f, conf, seenModal, modalEmpty)
          ELSE addScheduleStart(c, f, conf, seenModal, modalEmpty, proceed)
     ELSE handleReservationSubmitStart(c, f, conf, seenModal, modalEmpty)
  /\ page' = [page EXCEPT ![c] = pg]
  /\ showConflictModal' = [showConflictModal EXCEPT ![c] = FALSE]
  /\ conflictingSchedules' = [conflictingSchedules EXCEPT ![c] = {}]
  /\ UNCHANGED <<db, nextId, schedules, log, editingSchedule, reminderVars, notifyVars, leaveVars>>

\* ReservationModal.handleSubmit on a new booking or on the schedule being edited
HandleSubmit(c, pg, f, sampleOk, dbOk, proceed) ==
  /\ pc[c] = "idle"
  /\ issued < MaxNew
  /\ showConflictModal[c] => (pg = page[c] /\ f = formData[c])
  /\ editingSchedule[c] # 0 => pg = "general"
  /\ ~validationErrors(pg, f, sampleOk)
  /\ LET conflicts == checkConflicts(db, f, editingSchedule[c], dbOk) IN
     /\ modalCheck' = [modalCheck EXCEPT ![c] =
          [ran |-> TRUE, ok |-> dbOk, cand |-> f, editId |-> editingSchedule[c],
           against |-> db, result |-> conflicts]]
     /\ IF conflicts # {} /\ ~showConflictModal[c]
        THEN /\ conflictingSchedules' = [conflictingSchedules EXCEPT ![c] = conflicts]
             /\ showConflictModal' = [showConflictModal EXCEPT ![c] = TRUE]
             /\ formData' = [formData EXCEPT ![c] = f]
             /\ page' = [page EXCEPT ![c] = pg]
             /\ UNCHANGED <<db, nextId, schedules, pc, pending, ctxCheck, log,
                            editingSchedule, reminderVars, notifyVars, leaveVars>>
        ELSE onSubmit(c, pg, f, showConflictModal[c], ids(db), conflicts = {}, proceed)

\* ReservationModal.handleForceSubmit: the dialog's "create anyway" button
HandleForceSubmit(c, proceed) ==
  /\ pc[c] = "idle"
  /\ showConflictModal[c]
  /\ onSubmit(c, page[c], formData[c], TRUE, ids(modalCheck[c].against), FALSE, proceed)
  /\ UNCHANGED modalCheck

\* the dialog's cancel button: setShowConflictModal(false); the modal is closed
CancelConflict(c) ==
  /\ pc[c] = "idle"
  /\ showConflictModal[c]
  /\ showConflictModal' = [showConflictModal EXCEPT ![c] = FALSE]
  /\ conflictingSchedules' = [conflictingSchedules EXCEPT ![c] = {}]
  /\ formData' = [formData EXCEPT ![c] = NullForm]
  /\ page' = [page EXCEPT ![c] = "general"]
  /\ modalCheck' = [modalCheck EXCEPT ![c] = NullModalCheck]
  /\ editingSchedule' = [editingSchedule EXCEPT ![c] = 0]
  /\ UNCHANGED <<db, nextId, schedules, pc, pending, ctxCheck, log,
                 reminderVars, notifyVars, leaveVars>>

\* a handler has finished: the client is idle, the modal closed
Finish(c) ==
  /\ pc' = [pc EXCEPT ![c] = "idle"]
  /\ page' = [page EXCEPT ![c] = "general"]
  /\ formData' = [formData EXCEPT ![c] = NullForm]
  /\ pending' = [pending EXCEPT ![c] = NullPending]
  /\ modalCheck' = [modalCheck EXCEPT ![c] = NullModalCheck]
  /\ ctxCheck' = [ctxCheck EXCEPT ![c] = NullCtxCheck]
  /\ editingSchedule' = [editingSchedule EXCEPT ![c] = 0]

\* the insert reaches the table and its response is handled: addSchedule
\* appends the new schedule to the local list, handleReservationSubmit
\* refreshes the local list from the table. addSchedule then notifies the
\* participants (at = the time of day, envs = what each participant's
\* notification meets) and returns true.
InsertDoneWith(c, at, envs) ==
  /\ pc[c] = "inserting"
  /\ LET row == insertRow(nextId, formData[c])
         st == IF pending[c].path = "addSchedule"
               THEN notifyCreated(serviceState, notification_preferences,
                                  arrayOf(row.participants), at, envs)
               ELSE serviceState
     IN
     /\ notification_logs' = st.logs
     /\ nextLogId' = st.nextLogId
     /\ sends' = st.sends
     /\ lastCall' = [NullCall EXCEPT !.n = lastCall.n, !.op = pending[c].path, !.id = nextId,
                                     !.at = at, !.envs = envs, !.result = "true"]
     /\ schedulesInsert(row)
     /\ schedules' = [schedules EXCEPT ![c] =
          IF pending[c].path = "addSchedule"
          THEN schedules[c] \cup {convertSchedule(row)}
          ELSE convertedSchedules(db \cup {row})]
     /\ log' = log \cup
          {[n |-> Cardinality(log) + 1, id |-> nextId, row |-> row, title |-> formData[c].title,
            path |-> pending[c].path,
            capChecked |-> pending[c].capChecked,
            conflictChecked |-> (pending[c].ctxChecked \/ pending[c].modalChecked),
            confirmed |-> pending[c].confirmed,
            seen |-> pending[c].seen,
            checkEmpty |-> pending[c].checkEmpty,
            dayCount |-> pending[c].dayCount,
            hadConflict |-> (\E r \in db : rowsConflict(r, row))]}
  /\ Finish(c)
  /\ UNCHANGED <<showConflictModal, conflictingSchedules, notification_preferences>>

\* the same when no participant is found in the users table: nothing is
\* notified
InsertDone(c) == InsertDoneWith(c, 0, [u \in Users |-> NullEnv])

\* MyCalendar: a schedule of the list is clicked and the modal opens on it
OpenEdit(c, id) ==
  /\ pc[c] = "idle"
  /\ ~showConflictModal[c]
  /\ editingSchedule[c] = 0
  /\ id \in {s.id : s \in schedules[c]}
  /\ editingSchedule' = [editingSchedule EXCEPT ![c] = id]
  /\ UNCHANGED <<db, nextId, schedules, pc, page, formData, showConflictModal,
                 conflictingSchedules, pending, modalCheck, ctxCheck, log,
                 reminderVars, notifyVars, leaveVars>>

\* MyCalendar: the modal's onClose while a schedule is open in it
CloseModal(c) ==
  /\ pc[c] = "idle"
  /\ ~showConflictModal[c]
  /\ editingSchedule[c] # 0
  /\ editingSchedule' = [editingSchedule EXCEPT ![c] = 0]
  /\ UNCHANGED <<db, nextId, schedules, pc, page, formData, showConflictModal,
                 conflictingSchedules, pending, modalCheck, ctxCheck, log,
                 reminderVars, notifyVars, leaveVars>>

\* the update reaches the table and its response is handled: updateSchedule
\* replaces the schedule in the local list, then notifies the participants
\* of the schedule before and after the update
UpdateDoneWith(c, at, envs) ==
  /\ pc[c] = "updating"
  /\ LET row == insertRow(editingSchedule[c], formData[c])
         originalSchedule == {s \in schedules[c] : s.id = editingSchedule[c]}
         allParticipants == UNION {s.participants : s \in originalSchedule}
                              \cup row.participants
         st == notifyUpdated(serviceState, notification_preferences,
                             arrayOf(allParticipants), at, envs)
     IN
     /\ notification_logs' = st.logs
     /\ nextLogId' = st.nextLogId
     /\ sends' = st.sends
     /\ lastCall' = [NullCall EXCEPT !.n = lastCall.n, !.op = pending[c].path, !.id = row.id,
                                     !.at = at, !.envs = envs, !.result = "void"]
     /\ schedulesUpdate(row)
     /\ schedules' = [schedules EXCEPT ![c] =
          {IF s.id = row.id THEN convertSchedule(row) ELSE s : s \in schedules[c]}]
     /\ log' = log \cup
          {[n |-> Cardinality(log) + 1, id |-> row.id, row |-> row,
            title |-> formData[c].title, path |-> pending[c].path,
            capChecked |-> pending[c].capChecked,
            conflictChecked |-> (pending[c].ctxChecked \/ pending[c].modalChecked),
            confirmed |-> pending[c].confirmed,
            seen |-> pending[c].seen,
            checkEmpty |-> pending[c].checkEmpty,
            dayCount |-> pending[c].dayCount,
            hadConflict |-> (\E r \in db : r.id # row.id /\ rowsConflict(r, row))]}
  /\ Finish(c)
  /\ UNCHANGED <<showConflictModal, conflictingSchedules, notification_preferences>>

\* the same when no participant is found in the users table
UpdateDone(c) == UpdateDoneWith(c, 0, [u \in Users |-> NullEnv])

\* the update fails: updateSchedule shows a toast and returns
UpdateError(c) ==
  /\ pc[c] = "updating"
  /\ Finish(c)
  /\ UNCHANGED <<db, nextId, schedules, showConflictModal, conflictingSchedules, log,
                 reminderVars, notifyVars, leaveVars>>

\* the insert fails: addSchedule returns false, handleReservationSubmit alerts
InsertError(c) ==
  /\ pc[c] = "inserting"
  /\ Finish(c)
  /\ UNCHANGED <<db, nextId, schedules, showConflictModal, conflictingSchedules, log,
                 reminderVars, notifyVars, leaveVars>>

\* addSchedule returned false (capacity toast, declined confirm, missing field):
\* MyCalendar's onSubmit returns and the client is idle again
Returned(c) ==
  /\ pc[c] = "returned"
  /\ Finish(c)
  /\ UNCHANGED <<db, nextId, schedules, showConflictModal, conflictingSchedules, log,
                 reminderVars, notifyVars, leaveVars>>

\* addSchedule of the mock-data CalendarContext (no table): capacity check,
\* conflict check, window.confirm (proceed), then the new schedule is appended
\* to the local list under a fresh id and the function returns.
legacyAddSchedule(c, f, proceed) ==
  LET daySchedules == getSchedulesForDate(schedules[c], f.startTime)
      count == Cardinality(daySchedules)
      conflicts == checkScheduleConflicts(schedules[c], f.startTime, f.endTime,
                                          f.participants, f.equipment)
      returned == IF dailyCapReached(count) THEN "capacity"
                  ELSE IF conflicts # {} /\ ~proceed THEN "declined"
                  ELSE "added"
      newSchedule == [id |-> nextId, startTime |-> f.startTime, endTime |-> f.endTime,
                      participants |-> f.participants, equipment |-> f.equipment,
                      reminders |-> f.reminders, recurrence |-> f.recurrence]
  IN
  /\ ctxCheck' = [ctxCheck EXCEPT ![c] =
        [ran |-> TRUE, cand |-> f, against |-> schedules[c],
         checked |-> (returned # "capacity"),
         conflicts |-> IF returned = "capacity" THEN {} ELSE conflicts,
         count |-> count, returned |-> returned]]
  /\ pc' = [pc EXCEPT ![c] = "returned"]
  /\ IF returned = "added"
     THEN /\ schedules' = [schedules EXCEPT ![c] = schedules[c] \cup {newSchedule}]
          /\ nextId' = nextId + 1
     ELSE UNCHANGED <<schedules, nextId>>

\* handleSubmit of the earlier ReservationModal: the form is passed on as it
\* is, with no validation and no conflict query
LegacyHandleSubmit(c, f, proceed) ==
  /\ pc[c] = "idle"
  /\ ~showConflictModal[c]
  /\ legacyAddSchedule(c, f, proceed)
  /\ UNCHANGED <<db, page, formData, showConflictModal, conflictingSchedules, pending,
                 modalCheck, log, editingSchedule, reminderVars, notifyVars, leaveVars>>

\* CalendarContext.fetchSchedules (mount, refreshSchedules)
FetchSchedules(c) ==
  /\ pc[c] = "idle"
  /\ schedules[c] # convertedSchedules(db)
  /\ schedules' = [schedules EXCEPT ![c] = convertedSchedules(db)]
  /\ UNCHANGED <<db, nextId, pc, page, formData, showConflictModal, conflictingSchedules,
                 pending, modalCheck, ctxCheck, log, editingSchedule,
                 reminderVars, notifyVars, leaveVars>>

\* ------------------------------------------------------- specifications
\* the user of client c submits the modal of one of the pages pgs, filled with
\* one of the forms fs (behind an open conflict dialog the form cannot change);
\* dbOk = FALSE: the modal's conflict query fails
Submit(c, pgs, fs, dbOk) ==
  /\ pc[c] = "idle"
  /\ issued < MaxNew
  /\ \E pg \in (IF showConflictModal[c] THEN {page[c]} ELSE pgs),
        f \in (IF showConflictModal[c] THEN {formData[c]} ELSE fs),
        sampleOk \in BOOLEAN :
       /\ ~validationErrors(pg, f, sampleOk)
       /\ \E proceed \in BOOLEAN : HandleSubmit(c, pg, f, sampleOk, dbOk, proceed)

\* the steps of the clients cs, submitting forms fs from the pages pgs
Step(cs, pgs, fs) ==
  \/ \E c \in cs : Submit(c, pgs, fs, TRUE)
  \/ \E c \in cs, proceed \in BOOLEAN : HandleForceSubmit(c, proceed)
  \/ \E c \in cs : CancelConflict(c)
  \/ \E c \in cs : InsertDone(c)
  \/ \E c \in cs : InsertError(c)
  \/ \E c \in cs : Returned(c)
  \/ \E c \in cs : Submit(c, pgs, fs, FALSE)

\* Spec: one session creating bookings from every page, on a table that
\* already holds 0, DailyCap-1 or DailyCap bookings on day 0.
InitSizes == {0, DailyCap - 1, DailyCap}

SpecForms == Forms(0..SpecMaxTime)

Init == \E n \in InitSizes : InitWith({FillerRow(i) : i \in 1..n})

Next == Step({"c1"}, Pages, SpecForms)

Spec == Init /\ [][Next]_vars

\* SpecCap: one session creating bookings from the calendar page (the caller
\* of addSchedule), on a table that already holds DailyCap-1, DailyCap or
\* DailyCap+1 bookings on day 0.
CapSizes == {DailyCap - 1, DailyCap, DailyCap + 1}

InitCap == \E n \in CapSizes : InitWith({FillerRow(i) : i \in 1..n})

NextCap == Step({"c1"}, {"general"}, SpecForms)

SpecCap == InitCap /\ [][NextCap]_vars

\* SpecEdit: one session creating and editing bookings on the calendar page,
\* on a table that holds the booking 0..1 of u1 with vehicle e1 and a later
\* booking of u2 with the same vehicle.
OtherRow(i) ==
  [id |-> i, start_time |-> toISOString(MaxTime - 1), end_time |-> toISOString(MaxTime),
   participants |-> {"u2"}, equipment |-> {[id |-> "e1", type |-> "vehicle"]},
   reminders |-> <<>>, recurrence |-> NoRecurrence]

InitEdit == InitWith({FillerRow(1), OtherRow(2)})

\* the forms of the session: windows that end when the first booking ends,
\* with no resource or with the vehicle of the stored bookings
EditForms ==
  {f \in SpecForms : /\ f.endTime = parseISO(FillerRow(1).end_time)
                     /\ f.equipment \subseteq FillerRow(1).equipment}

NextEdit ==
  \/ Step({"c1"}, {"general"}, EditForms)
  \/ \E id \in 1..(nextId - 1) : OpenEdit("c1", id)
  \/ CloseModal("c1")
  \/ UpdateDone("c1")
  \/ UpdateError("c1")

SpecEdit == InitEdit /\ [][NextEdit]_vars

\* SpecRace: two sessions creating bookings concurrently from the calendar
\* page, on an empty table.
RaceSizes == {0}

InitRace == \E n \in RaceSizes : InitWith({FillerRow(i) : i \in 1..n})

NextRace ==
  \/ Step(Clients, {"general"}, SpecForms)
  \/ \E c \in Clients : FetchSchedules(c)

SpecRace == InitRace /\ [][NextRace]_vars

\* SpecCheck: one session submitting any form of the bounded form space once,
\* against a table that holds the booking 0..1 of u1 and one arbitrary valid
\* booking; the inserts themselves are not followed.
CheckPages == {"general", "vehicle"}

ValidRows(id) ==
  {insertRow(id, f) : f \in {g \in Forms(Times) : ~validationErrors("general", g, TRUE)}}

InitCheck == \E r \in ValidRows(2) : InitWith({FillerRow(1), r})

NextCheck ==
  \/ Submit("c1", CheckPages, Forms(Times), TRUE)
  \/ \E proceed \in BOOLEAN : HandleForceSubmit("c1", proceed)
  \/ CancelConflict("c1")
  \/ Returned("c1")
  \/ Submit("c1", CheckPages, Forms(Times), FALSE)

SpecCheck == InitCheck /\ [][NextCheck]_vars

\* SpecOverlap: one session submitting any form of the bounded form space,
\* zero-length and inverted windows included, through the earlier modal,
\* against a list loaded with one arbitrary booking (what earlier submits of
\* that modal left in the list); one submit per loaded list.
AnyRows(id) ==
  {insertRow(id, f) : f \in {g \in Forms(Times) : g.title = "t" /\ g.participants # {}}}

LegacyForms == {g \in Forms(Times) : g.title = "t"}

InitOverlap == \E r \in AnyRows(1) : InitWith({r})

LegacySubmit(c, fs) ==
  /\ pc[c] = "idle"
  /\ schedules[c] = convertedSchedules(db)
  /\ \E f \in fs, proceed \in BOOLEAN : LegacyHandleSubmit(c, f, proceed)

NextOverlap ==
  \/ LegacySubmit("c1", LegacyForms)
  \/ Returned("c1")

SpecOverlap == InitOverlap /\ [][NextOverlap]_vars

\* SpecPlan: the first statements that addSchedule, updateSchedule and
\* deleteSchedule send to the schedules table for one booking, with the
\* triggers of scheduled_notifications and a clock that advances.
clientVars == <<schedules, pc, page, formData, showConflictModal, conflictingSchedules,
                pending, modalCheck, ctxCheck, log, editingSchedule>>

\* no reminder, one reminder, two reminders
ReminderLists ==
  {<<>>,
   <<[time |-> 1, methods |-> {"email"}]>>,
   <<[time |-> 1, methods |-> {"email"}], [time |-> 3, methods |-> {"email", "push"}]>>}

PlanForms ==
  [title : {"t"}, startTime : {SpecMaxTime + 1, SpecMaxTime + 3}, endTime : {SpecMaxTime + 4},
   participants : {{"u1"}, {"u1", "u2"}}, equipment : {{}}, reminders : ReminderLists,
   recurrence : {NoRecurrence}]

\* addSchedule: supabase.from('schedules').insert(...)
supabaseInsert(f) ==
  /\ nextId = 1
  /\ lastStmt.n < MaxStmts
  /\ schedulesInsert(insertRow(nextId, f))
  /\ UNCHANGED <<clientVars, notifyVars>>

\* updateSchedule: supabase.from('schedules').update(...).eq('id', id)
supabaseUpdate(id, f) ==
  /\ \E r \in db : r.id = id
  /\ lastStmt.n < MaxStmts
  /\ schedulesUpdate(insertRow(id, f))
  /\ UNCHANGED <<clientVars, notifyVars>>

\* deleteSchedule: supabase.from('schedules').delete().eq('id', id)
supabaseDelete(id) ==
  /\ \E r \in db : r.id = id
  /\ lastStmt.n < MaxStmts
  /\ schedulesDelete(id)
  /\ UNCHANGED <<clientVars, notifyVars>>

\* the database clock advances
Tick ==
  /\ now < SpecMaxTime
  /\ now' = now + 1
  /\ UNCHANGED <<db, nextId, clientVars, scheduled_notifications, nextSnId, lastStmt,
                 scheduler, notifyVars, leaveVars>>

\* App's effect on mount: schedulerService.start() is commented out, so the
\* scheduler of the tab is not started
AppMount(c) ==
  /\ ~scheduler[c].mounted
  /\ scheduler' = [scheduler EXCEPT ![c].mounted = TRUE]
  /\ UNCHANGED <<db, nextId, clientVars, scheduled_notifications, nextSnId, now, lastStmt,
                 notifyVars, leaveVars>>

\* the cleanup of App's effect on unmount: schedulerService.stop() is
\* commented out as well
AppUnmount(c) ==
  /\ scheduler[c].mounted
  /\ scheduler' = [scheduler EXCEPT ![c].mounted = FALSE]
  /\ UNCHANGED <<db, nextId, clientVars, scheduled_notifications, nextSnId, now, lastStmt,
                 notifyVars, leaveVars>>

InitPlan == InitWith({})

NextPlan ==
  \/ \E f \in PlanForms : supabaseInsert(f)
  \/ \E id \in 1..MaxNew, f \in PlanForms : supabaseUpdate(id, f)
  \/ \E id \in 1..MaxNew : supabaseDelete(id)
  \/ Tick

SpecPlan == InitPlan /\ [][NextPlan]_vars

\* SpecDelete: the DELETE statement of deleteSchedule applied to every table
\* of notifications the schema admits for two stored bookings: the rows of a
\* booking, one per status.
NotificationRow(i, b, st) ==
  [id |-> i, schedule_id |-> b, user_id |-> "u1", reminder_time |-> 1,
   notification_type |-> "email", scheduled_for |-> 0, status |-> st]

TableRows ==
  {NotificationRow(1, 1, "pending"), NotificationRow(2, 1, "sent"),
   NotificationRow(3, 1, "failed"), NotificationRow(4, 1, "cancelled"),
   NotificationRow(5, 2, "pending"), NotificationRow(6, 2, "sent")}

Tables == SUBSET TableRows

InitDelete ==
  \E T \in Tables :
    /\ \A r \in T : statusCheck(r.status)
    /\ InitTables({FillerRow(1), OtherRow(2)}, T, FALSE)

NextDelete ==
  \/ \E id \in 1..MaxNew : supabaseDelete(id)
  \/ Tick

SpecDelete == InitDelete /\ [][NextDelete]_vars

\* NotificationDispatcher, step 1: a started scheduler selects a row that is
\* pending and due
selectDue(w, id) ==
  /\ scheduler[w].started
  /\ scheduler[w].pc = "idle"
  /\ \E r \in scheduled_notifications :
       r.id = id /\ r.status = "pending" /\ r.scheduled_for <= now
  /\ scheduler' = [scheduler EXCEPT ![w].pc = "claiming", ![w].row = id]
  /\ UNCHANGED <<db, nextId, clientVars, scheduled_notifications, nextSnId, now, lastStmt,
                 notifyVars, leaveVars>>

\* NotificationDispatcher, step 2: compare-and-swap of the selected row's
\* status from pending to claimed; the UPDATE is subject to the CHECK of the
\* status column
claim(w) ==
  /\ scheduler[w].pc = "claiming"
  /\ LET matched == {r \in scheduled_notifications :
                       r.id = scheduler[w].row /\ r.status = "pending"}
         ok == matched # {} /\ statusCheck("claimed")
     IN
     /\ scheduled_notifications' =
          IF ok THEN (scheduled_notifications \ matched)
                     \cup {[r EXCEPT !.status = "claimed"] : r \in matched}
          ELSE scheduled_notifications
     /\ scheduler' = [scheduler EXCEPT ![w].pc = "returned", ![w].won = ok]
  /\ UNCHANGED <<db, nextId, clientVars, nextSnId, now, lastStmt, notifyVars, leaveVars>>

\* SpecClaim: the schedulers of two tabs, started, claiming due rows of the
\* tables of SpecDelete.
InitClaim ==
  \E T \in Tables :
    /\ \A r \in T : statusCheck(r.status)
    /\ InitTables({FillerRow(1), OtherRow(2)}, T, TRUE)

NextClaim ==
  \/ \E w \in Clients, id \in ids(TableRows) : selectDue(w, id)
  \/ \E w \in Clients : claim(w)

SpecClaim == InitClaim /\ [][NextClaim]_vars

\* SpecApp: SpecPlan with the App mounted and unmounted in one tab. The
\* clock advances, the effects of the App run, and a started scheduler takes
\* its steps.
NextApp ==
  \/ NextPlan
  \/ AppMount("c1")
  \/ AppUnmount("c1")

SpecApp ==
  /\ InitPlan
  /\ [][NextApp]_vars
  /\ WF_vars(Tick)
  /\ WF_vars(AppMount("c1"))
  /\ WF_vars(AppUnmount("c1"))
  /\ \A w \in Clients : WF_vars((\E id \in 1..nextSnId : selectDue(w, id)) \/ claim(w))

\* ------------------------------------------------ calls of the service
\* a call of the notification service returns: its log rows and edge-function
\* calls are kept, with what was called
serviceReturn(op, userId, id, at, env, st) ==
  /\ notification_logs' = st.logs
  /\ nextLogId' = st.nextLogId
  /\ sends' = st.sends
  /\ lastCall' = [NullCall EXCEPT !.n = lastCall.n + 1, !.op = op, !.userId = userId,
                                  !.id = id, !.at = at, !.env = env, !.result = st.result]
  /\ UNCHANGED <<db, nextId, clientVars, reminderVars, notification_preferences, leaveVars>>

\* addSchedule's call for one participant
NotifyCreated(userId, at, env) ==
  /\ lastCall.n = 0
  /\ serviceReturn("notifyScheduleCreated", userId, 0, at, env,
       notifyScheduleCreated(serviceState, notification_preferences, userId, at, env))

\* updateSchedule's call for one participant
NotifyUpdated(userId, at, env) ==
  /\ lastCall.n = 0
  /\ serviceReturn("notifyScheduleUpdated", userId, 0, at, env,
       notifyScheduleUpdated(serviceState, notification_preferences, userId, at, env))

\* deleteSchedule's call for one participant
NotifyDeleted(userId, at, env) ==
  /\ lastCall.n = 0
  /\ serviceReturn("notifyScheduleDeleted", userId, 0, at, env,
       notifyScheduleDeleted(serviceState, notification_preferences, userId, at, env))

\* the scheduler's call for a due reminder
NotifyReminder(userId, at, env) ==
  /\ lastCall.n = 0
  /\ serviceReturn("notifyScheduleReminder", userId, 0, at, env,
       notifyScheduleReminder(serviceState, notification_preferences, userId, at, env))

\* Sidebar.testEmailNotification: sendEmail with template schedule_reminder
\* for the current user
testEmailNotification(userId, at, env) ==
  /\ lastCall.n = 0
  /\ serviceReturn("sendEmail", userId, 0, at, env,
       sendEmail(serviceState,
                 [userId |-> userId, templateName |-> "schedule_reminder", at |-> at], env))

\* the notification list marks one row read
MarkRead(notificationId, at, ok) ==
  /\ notification_logs' = markNotificationAsRead(notification_logs, notificationId, at, ok)
  /\ sends' = {}
  /\ lastCall' = [NullCall EXCEPT !.n = lastCall.n, !.op = "markNotificationAsRead",
                                  !.id = notificationId, !.at = at,
                                  !.result = IF ok THEN "true" ELSE "false"]
  /\ UNCHANGED <<db, nextId, clientVars, reminderVars, notification_preferences, nextLogId,
                 leaveVars>>

\* the notification list marks every row of the user read
MarkAllRead(userId, at, ok) ==
  /\ notification_logs' = markAllNotificationsAsRead(notification_logs, userId, at, ok)
  /\ sends' = {}
  /\ lastCall' = [NullCall EXCEPT !.n = lastCall.n, !.op = "markAllNotificationsAsRead",
                                  !.userId = userId, !.at = at,
                                  !.result = IF ok THEN "true" ELSE "false"]
  /\ UNCHANGED <<db, nextId, clientVars, reminderVars, notification_preferences, nextLogId,
                 leaveVars>>

\* SpecNotify: one call of the service for user u1, whose preferences row is
\* any combination of the toggles, with quiet hours 22:00-07:00 on or off,
\* at a time of day inside or outside that window; every query, edge
\* function and log insert of the call succeeds or fails.
Clock == {minutes(21, 59), minutes(23, 30), minutes(6, 0), minutes(8, 0)}

\* the category toggles of the two channels: all on, or one toggle of one
\* channel off
CategoryChoices ==
  {<<Categories, Categories>>}
    \cup {<<Categories \ {c}, Categories>> : c \in Categories}
    \cup {<<Categories, Categories \ {c}>> : c \in Categories}

PreferenceRow(email, push, subscription, emailOn, pushOn, quiet) ==
  [emailEnabled |-> email,
   emailScheduleCreated |-> "schedule_created" \in emailOn,
   emailScheduleUpdated |-> "schedule_updated" \in emailOn,
   emailScheduleDeleted |-> "schedule_deleted" \in emailOn,
   emailScheduleReminder |-> "schedule_reminder" \in emailOn,
   pushEnabled |-> push,
   pushScheduleCreated |-> "schedule_created" \in pushOn,
   pushScheduleUpdated |-> "schedule_updated" \in pushOn,
   pushScheduleDeleted |-> "schedule_deleted" \in pushOn,
   pushScheduleReminder |-> "schedule_reminder" \in pushOn,
   pushSubscription |-> subscription,
   quietHoursEnabled |-> quiet,
   quietHoursStart |-> minutes(22, 0), quietHoursEnd |-> minutes(7, 0)]

PreferenceRows ==
  {PreferenceRow(email, push, subscription, on[1], on[2], quiet) :
     email \in BOOLEAN, push \in BOOLEAN, subscription \in BOOLEAN,
     on \in CategoryChoices, quiet \in BOOLEAN}

\* the participant is found and the notify call does not raise
CallEnvs ==
  [userOk : {TRUE}, throws : {FALSE}, prefsOk : BOOLEAN, pushPrefsOk : BOOLEAN,
   emailOk : BOOLEAN, pushOk : BOOLEAN, logOk : BOOLEAN]

InitNotify ==
  \E p \in PreferenceRows :
    /\ InitSchedules({}, {}, FALSE)
    /\ InitService([u \in Users |-> IF u = "u1" THEN p ELSE DefaultPreferences], {})
    /\ InitLeave

NextNotify ==
  \/ \E at \in Clock, env \in CallEnvs : NotifyCreated("u1", at, env)
  \/ \E at \in Clock, env \in CallEnvs : NotifyUpdated("u1", at, env)
  \/ \E at \in Clock, env \in CallEnvs : NotifyDeleted("u1", at, env)
  \/ \E at \in Clock, env \in CallEnvs : NotifyReminder("u1", at, env)
  \/ \E at \in Clock, env \in CallEnvs : testEmailNotification("u1", at, env)

SpecNotify == InitNotify /\ [][NextNotify]_vars

\* SpecLog: calls of the service on every table of notification_logs made of
\* a read and an unread row per user: one notify call or test email for u1,
\* and the mark-read calls of both users.
LogRow(i, userId, read) ==
  [id |-> i, user_id |-> userId, type |-> "email", category |-> "schedule_created",
   status |-> "sent", error_message |-> "", is_read |-> read,
   read_at |-> IF read THEN minutes(6, 0) ELSE -1]

LogRows ==
  {LogRow(1, "u1", FALSE), LogRow(2, "u1", TRUE), LogRow(3, "u2", FALSE),
   LogRow(4, "u2", TRUE)}

\* the time of day at which the calls of SpecLog run
LogClock == {minutes(8, 0)}

InitLog ==
  \E T \in SUBSET LogRows :
    /\ InitSchedules({}, {}, FALSE)
    /\ InitService([u \in Users |-> DefaultPreferences], T)
    /\ InitLeave

NextLog ==
  \/ \E at \in LogClock, env \in CallEnvs : NotifyCreated("u1", at, env)
  \/ \E at \in LogClock, env \in CallEnvs : NotifyUpdated("u1", at, env)
  \/ \E at \in LogClock, env \in CallEnvs : NotifyDeleted("u1", at, env)
  \/ \E at \in LogClock, env \in CallEnvs : NotifyReminder("u1", at, env)
  \/ \E at \in LogClock, env \in CallEnvs : testEmailNotification("u1", at, env)
  \/ \E id \in ids(LogRows), at \in LogClock, ok \in BOOLEAN : MarkRead(id, at, ok)
  \/ \E u \in Users, at \in LogClock, ok \in BOOLEAN : MarkAllRead(u, at, ok)

SpecLog == InitLog /\ [][NextLog]_vars

\* SpecCreate: one session creating a booking on the calendar page, with or
\* without a weekly recurrence of four, on a day that has room for one more
\* booking; the notifications of the create meet every outcome of the users
\* lookup, of the notify call and of the email.
CreateForms ==
  [title : {"t"}, startTime : {0}, endTime : {1},
   participants : {{"u1"}, {"u2"}, {"u1", "u2"}}, equipment : {{}}, reminders : {<<>>},
   recurrence : {NoRecurrence, Recurrence("weekly", "count", 4)}]

CreateEnvs ==
  [userOk : BOOLEAN, throws : BOOLEAN, prefsOk : {TRUE}, pushPrefsOk : {TRUE},
   emailOk : BOOLEAN, pushOk : {TRUE}, logOk : {TRUE}]

InitCreate == InitWith({FillerRow(i) : i \in 1..(DailyCap - 1)})

NextCreate ==
  \/ Submit("c1", {"general"}, CreateForms, TRUE)
  \/ \E proceed \in BOOLEAN : HandleForceSubmit("c1", proceed)
  \/ CancelConflict("c1")
  \/ \E at \in LogClock, envs \in [Users -> CreateEnvs] : InsertDoneWith("c1", at, envs)
  \/ InsertError("c1")
  \/ Returned("c1")
  \/ Submit("c1", {"general"}, CreateForms, FALSE)

SpecCreate == InitCreate /\ [][NextCreate]_vars

\* SpecMethods: the statements of SpecPlan for bookings of the modal, whose
\* one reminder carries the methods of the two checkboxes ('email' and
\* 'notification'), each checked or not.
MethodChoices == SUBSET {"email", "notification"}

MethodForms ==
  [title : {"t"}, startTime : {SpecMaxTime + 2}, endTime : {SpecMaxTime + 3},
   participants : {{"u1"}, {"u1", "u2"}}, equipment : {{}},
   reminders : {<<[time |-> 1, methods |-> m]>> : m \in MethodChoices},
   recurrence : {NoRecurrence}]

NextMethods ==
  \/ \E f \in MethodForms : supabaseInsert(f)
  \/ \E id \in 1..MaxNew, f \in MethodForms : supabaseUpdate(id, f)
  \/ Tick

SpecMethods == InitPlan /\ [][NextMethods]_vars

\* ------------------------------------------------ LeaveRequests page
\* handleSubmit: the request is inserted with its approver list, status
\* pending, and appended to the list of the page; an insert error leaves
\* both as they are
handleSubmit(u, approvers, president, ok) ==
  /\ nextLeaveId = 1
  /\ LET row == [id |-> nextLeaveId, user_id |-> u, status |-> "pending",
                 approvers |-> allApprovers(approvers, president)]
     IN IF ok
        THEN /\ leave_requests' = leave_requests \cup {row}
             /\ nextLeaveId' = nextLeaveId + 1
             /\ leaveRequests' = [leaveRequests EXCEPT ![u] = @ \cup {row}]
        ELSE UNCHANGED <<leave_requests, nextLeaveId, leaveRequests>>
  /\ UNCHANGED <<db, nextId, clientVars, reminderVars, notifyVars, decisions>>

\* fetchLeaveRequests: the page loads the table
fetchLeaveRequests(u) ==
  /\ leaveRequests' = [leaveRequests EXCEPT ![u] = leave_requests]
  /\ UNCHANGED <<db, nextId, clientVars, reminderVars, notifyVars, leave_requests,
                 nextLeaveId, decisions>>

\* handleApproval, from a button of the pending tab (requests of the list
\* where the current user's entry is pending): status and approver list are
\* worked out from the loaded request and written to the row; on success
\* the list of the page is updated
handleApproval(u, requestId, approved, ok) ==
  /\ \E request \in leaveRequests[u] :
       /\ request.id = requestId
       /\ \E approver \in request.approvers :
            approver.userId = u /\ approver.status = "pending"
       /\ LET approvers == updatedApprovers(request, u, approved)
              status == newStatus(approvers)
              written == \E r \in leave_requests : r.id = requestId
          IN IF ok
             THEN /\ leave_requests' =
                       {IF r.id = requestId
                        THEN [r EXCEPT !.status = status, !.approvers = approvers]
                        ELSE r : r \in leave_requests}
                  /\ leaveRequests' = [leaveRequests EXCEPT ![u] =
                       {IF r.id = requestId
                        THEN [r EXCEPT !.status = status, !.approvers = approvers]
                        ELSE r : r \in leaveRequests[u]}]
                  /\ decisions' =
                       IF written
                       THEN {d \in decisions : ~(d.id = requestId /\ d.userId = u)}
                              \cup {[id |-> requestId, userId |-> u,
                                     status |-> IF approved THEN "approved" ELSE "rejected"]}
                       ELSE decisions
             ELSE UNCHANGED <<leave_requests, leaveRequests, decisions>>
  /\ UNCHANGED <<db, nextId, clientVars, reminderVars, notifyVars, nextLeaveId>>

\* SpecLeave: one leave request of u1 with any set of group approvers, with
\* or without a president, and the approvers deciding on it from their pages.
InitLeaveSpec == InitWith({})

NextLeave ==
  \/ \E approvers \in SUBSET Users, president \in SUBSET {"president"}, ok \in BOOLEAN :
       handleSubmit("u1", approvers, president, ok)
  \/ \E u \in People : fetchLeaveRequests(u)
  \/ \E u \in People, approved \in BOOLEAN, ok \in BOOLEAN : handleApproval(u, 1, approved, ok)

SpecLeave == InitLeaveSpec /\ [][NextLeave]_vars

\* ------------------------------------------------------------------ claims
\* vocabulary of the claims: open-interval overlap of two windows
overlaps(aStart, aEnd, bStart, bEnd) == aStart < bEnd /\ bStart < aEnd

\* a form and a stored row share a participant or an identical equipment reference
sharesRow(f, r) == f.participants \cap r.participants # {} \/ f.equipment \cap r.equipment # {}

overlapsRow(f, r) == overlaps(f.startTime, f.endTime, parseISO(r.start_time), parseISO(r.end_time))

touchesRow(f, r) == parseISO(r.start_time) = f.endTime \/ parseISO(r.end_time) = f.startTime

\* the same for a schedule of a local list
sharesSched(f, x) == f.participants \cap x.participants # {} \/ f.equipment \cap x.equipment # {}

overlapsSched(f, x) == overlaps(f.startTime, f.endTime, x.startTime, x.endTime)

touchesSched(f, x) == x.startTime = f.endTime \/ x.endTime = f.startTime

dayOf(t) == t \div DayLen

\* C1: no two creates that ran concurrently (neither saw the other's row), whose
\* rows overlap and share a participant or a resource, both passed their
\* conflict checks with an empty result and were both inserted.
C1_NoConcurrentDoubleBooking ==
  \A e1 \in log : \A e2 \in log :
    (/\ e1.id # e2.id
     /\ e1.id \notin e2.seen /\ e2.id \notin e1.seen
     /\ rowsConflict(e1.row, e2.row))
    => ~(e1.checkEmpty /\ e2.checkEmpty)

\* C2: the table never holds more than DailyCap bookings starting on one day.
C2_DailyCapNeverExceeded ==
  \A r \in db :
    Cardinality({q \in db : dayOf(parseISO(q.start_time)) = dayOf(parseISO(r.start_time))})
      <= DailyCap

\* C3: a row that overlapped a stored row and shared a participant or a
\* resource with it when it was inserted was inserted only after the user
\* confirmed the override.
C3_ConflictNeedsConfirmation == \A e \in log : e.hadConflict => e.confirmed

\* C4: an insert is issued only after the conflict check and the capacity
\* check have both run on the candidate.
C4_ChecksBeforeInsert ==
  /\ \A c \in Clients :
       pc[c] = "inserting" =>
         /\ pending[c].capChecked
         /\ (pending[c].ctxChecked \/ pending[c].modalChecked)
  /\ \A e \in log : e.capChecked /\ e.conflictChecked

\* C5: neither conflict check reports a stored booking that only touches the
\* candidate (starts at its end or ends at its start).
C5_TouchingNeverReported ==
  \A c \in Clients :
    /\ (modalCheck[c].ran /\ modalCheck[c].ok) =>
         \A r \in modalCheck[c].result : ~touchesRow(modalCheck[c].cand, r)
    /\ (ctxCheck[c].ran /\ ctxCheck[c].checked) =>
         \A x \in ctxCheck[c].conflicts : ~touchesSched(ctxCheck[c].cand, x)

C7_AllConflictsReported ==
  \A c \in Clients :
    /\ (modalCheck[c].ran /\ modalCheck[c].ok) =>
         \A r \in modalCheck[c].against :
           (overlapsRow(modalCheck[c].cand, r) /\ sharesRow(modalCheck[c].cand, r))
             => r \in modalCheck[c].result
    /\ (ctxCheck[c].ran /\ ctxCheck[c].checked) =>
         \A x \in ctxCheck[c].against :
           (overlapsSched(ctxCheck[c].cand, x) /\ sharesSched(ctxCheck[c].cand, x))
             => x \in ctxCheck[c].conflicts

\* C8: neither conflict check reports a stored booking whose participants and
\* resources are both disjoint from the candidate's, whatever the windows.
C8_DisjointNeverReported ==
  \A c \in Clients :
    /\ modalCheck[c].ran =>
         \A r \in modalCheck[c].result : sharesRow(modalCheck[c].cand, r)
    /\ ctxCheck[c].ran =>
         \A x \in ctxCheck[c].conflicts : sharesSched(ctxCheck[c].cand, x)

\* C8 witness: both checks ran on a candidate that overlaps a stored booking
\* with disjoint participants and disjoint resources, and both returned nothing.
C8_Witness ==
  \E c \in Clients :
    /\ modalCheck[c].ran /\ modalCheck[c].ok /\ modalCheck[c].result = {}
    /\ ctxCheck[c].ran /\ ctxCheck[c].checked /\ ctxCheck[c].conflicts = {}
    /\ ctxCheck[c].cand = modalCheck[c].cand
    /\ \E r \in modalCheck[c].against :
         /\ overlapsRow(modalCheck[c].cand, r)
         /\ ~sharesRow(modalCheck[c].cand, r)
         /\ r.equipment # {} /\ modalCheck[c].cand.equipment # {}
         /\ convertSchedule(r) \in ctxCheck[c].against

\* C9: addSchedule returns false on the capacity check exactly when the day
\* count is DailyCap or more, then issues no insert; no row was inserted by
\* addSchedule at a day count of DailyCap or more.
C9_CapRejectsExactlyAtCap ==
  /\ \A c \in Clients :
       ctxCheck[c].ran =>
         /\ (ctxCheck[c].count >= DailyCap) <=> (ctxCheck[c].returned = "capacity")
         /\ (ctxCheck[c].returned = "capacity") => (pc[c] = "returned" /\ pending[c] = NullPending)
  /\ \A e \in log : e.path = "addSchedule" => e.dayCount < DailyCap

\* C9 witness: a candidate was let through at a day count of DailyCap-1 and
\* inserted, and the next one rejected at a day count of DailyCap.
C9_Witness ==
  /\ \E e \in log : e.path = "addSchedule" /\ e.dayCount = DailyCap - 1
  /\ \E c \in Clients :
       ctxCheck[c].ran /\ ctxCheck[c].count = DailyCap /\ ctxCheck[c].returned = "capacity"

\* C10: the day count of the capacity check is the number of bookings of the
\* list whose start falls on the local day of the candidate's start.
C10_CountIsSameStartDay ==
  \A c \in Clients :
    ctxCheck[c].ran =>
      ctxCheck[c].count =
        Cardinality({x \in ctxCheck[c].against :
                       dayOf(x.startTime) = dayOf(ctxCheck[c].cand.startTime)})

C12_UpdateConflictNeedsConfirmation ==
  \A e \in log : (e.path = "updateSchedule" /\ e.hadConflict) => e.confirmed

\* vocabulary of the reminder claims: the row written by the last statement,
\* the notification rows it created, the due time of reminder i of a booking
stmtRow == CHOOSE r \in lastStmt.NEWROW : TRUE

stmtOld == CHOOSE r \in lastStmt.OLDROW : TRUE

created == scheduled_notifications \ lastStmt.before

dueAt(row, i) == parseISO(row.start_time) - row.reminders[i].time

pairs(row) == row.participants \X (1..Len(row.reminders))

\* pending rows of the table T planned for participant p and reminder i of row
rowsOfPair(T, row, p, i) ==
  {r \in T : /\ r.schedule_id = row.id /\ r.user_id = p /\ r.status = "pending"
             /\ r.reminder_time = row.reminders[i].time
             /\ r.scheduled_for = dueAt(row, i)}

\* C13: a create plans exactly one pending row, due at start - offset, for
\* every (participant, reminder) pair whose due time is in the future, and
\* creates no other row.
C13_CreatePlansEachFuturePair ==
  (lastStmt.op = "INSERT") =>
    /\ \A pi \in pairs(stmtRow) :
         (dueAt(stmtRow, pi[2]) > lastStmt.at)
           => Cardinality(rowsOfPair(created, stmtRow, pi[1], pi[2])) = 1
    /\ \A r \in created :
         \E pi \in pairs(stmtRow) :
           /\ dueAt(stmtRow, pi[2]) > lastStmt.at
           /\ r \in rowsOfPair(created, stmtRow, pi[1], pi[2])
    /\ lastStmt.before \subseteq scheduled_notifications

\* C13 witness: a create that planned a row for one pair and skipped another.
C13_Witness ==
  /\ lastStmt.op = "INSERT"
  /\ created # {}
  /\ \E pi \in pairs(stmtRow) : dueAt(stmtRow, pi[2]) <= lastStmt.at

\* C14: no row planned by a create or an update is due earlier than the
\* time of planning.
C14_NeverPlansPastDue ==
  (lastStmt.op \in {"INSERT", "UPDATE"}) =>
    \A r \in created : r.scheduled_for >= lastStmt.at

\* C14 witness: an update that planned a row for one pair and skipped a pair
\* due before the time of planning.
C14_Witness ==
  /\ lastStmt.op = "UPDATE"
  /\ lastStmt.NEWROW # {}
  /\ created # {}
  /\ \E pi \in pairs(stmtRow) : dueAt(stmtRow, pi[2]) < lastStmt.at

\* C15: after an update, no pending row of the booking that was there before
\* the update and does not belong to the booking's new values remains.
C15_UpdateLeavesNoStalePending ==
  (lastStmt.op = "UPDATE" /\ lastStmt.NEWROW # {}) =>
    \A r \in scheduled_notifications \cap lastStmt.before :
      (r.schedule_id = stmtRow.id /\ r.status = "pending")
        => \E pi \in pairs(stmtRow) :
             r \in rowsOfPair(scheduled_notifications, stmtRow, pi[1], pi[2])

\* C16: after an update, every (participant, reminder) pair of the booking
\* whose recomputed due time is in the future has exactly one pending row
\* with that due time.
C16_UpdatePlansEachFuturePairOnce ==
  (lastStmt.op = "UPDATE" /\ lastStmt.NEWROW # {}) =>
    \A pi \in pairs(stmtRow) :
      (dueAt(stmtRow, pi[2]) > lastStmt.at)
        => Cardinality(rowsOfPair(scheduled_notifications, stmtRow, pi[1], pi[2])) = 1

C18_DeleteKeepsSentRows ==
  (lastStmt.op = "DELETE" /\ lastStmt.OLDROW # {}) =>
    \A r \in lastStmt.before :
      (r.schedule_id = stmtOld.id /\ r.status \in {"sent", "claimed"})
        => r \in scheduled_notifications

duePending(id) ==
  \E r \in scheduled_notifications :
    r.id = id /\ r.status = "pending" /\ r.scheduled_for <= now

\* the row with primary key id is not pending: fired, cancelled or removed
notPending(id) ==
  ~\E r \in scheduled_notifications : r.id = id /\ r.status = "pending"

\* C20: every row that is pending and due eventually leaves pending (it is
\* fired, or its booking is deleted first).
C20_DueRowEventuallyFired ==
  \A id \in 1..(4 * MaxStmts) : [](duePending(id) => <>notPending(id))

\* vocabulary: the time of day t lies in the window from..to, which wraps
\* around midnight when from > to
inWindow(t, from, to) == IF from <= to THEN from <= t /\ t < to ELSE t >= from \/ t < to

\* the quiet hours of a preferences row are on and cover the time of day t
inQuietHours(p, t) == p.quietHoursEnabled /\ inWindow(t, p.quietHoursStart, p.quietHoursEnd)

\* C21: no email and no push is sent to a user at a time of day inside the
\* user's enabled quiet hours (22:00-07:00 covers 23:30 and 06:00, not 08:00
\* or 21:59).
C21_NoSendInQuietHours ==
  \A a \in sends : ~inQuietHours(notification_preferences[a.userId], a.at)

\* the four notify functions and the category each one stands for
NotifyOps ==
  [notifyScheduleCreated |-> "schedule_created", notifyScheduleUpdated |-> "schedule_updated",
   notifyScheduleDeleted |-> "schedule_deleted", notifyScheduleReminder |-> "schedule_reminder"]

\* the category toggle of a channel in a preferences row
categoryToggle(p, channel, category) ==
  CASE channel = "email" /\ category = "schedule_created" -> p.emailScheduleCreated
    [] channel = "email" /\ category = "schedule_updated" -> p.emailScheduleUpdated
    [] channel = "email" /\ category = "schedule_deleted" -> p.emailScheduleDeleted
    [] channel = "email" /\ category = "schedule_reminder" -> p.emailScheduleReminder
    [] channel = "push" /\ category = "schedule_created" -> p.pushScheduleCreated
    [] channel = "push" /\ category = "schedule_updated" -> p.pushScheduleUpdated
    [] channel = "push" /\ category = "schedule_deleted" -> p.pushScheduleDeleted
    [] channel = "push" /\ category = "schedule_reminder" -> p.pushScheduleReminder

globalToggle(p, channel) == IF channel = "email" THEN p.emailEnabled ELSE p.pushEnabled

\* C22: a notify function attempts a send on a channel only if the user's
\* global toggle and the function's category toggle of that channel are both
\* on, and attempts nothing when the preferences could not be loaded.
C22_SendsNeedBothToggles ==
  lastCall.op \in DOMAIN NotifyOps =>
    \A a \in sends :
      /\ lastCall.env.prefsOk
      /\ a.userId = lastCall.userId
      /\ globalToggle(notification_preferences[a.userId], a.channel)
      /\ categoryToggle(notification_preferences[a.userId], a.channel, NotifyOps[lastCall.op])

\* C22 witness: notifyScheduleUpdated sent the email and held the push back
\* because the push toggle of its category is off.
C22_Witness ==
  /\ lastCall.op = "notifyScheduleUpdated"
  /\ notification_preferences[lastCall.userId].pushEnabled
  /\ ~notification_preferences[lastCall.userId].pushScheduleUpdated
  /\ \E a \in sends : a.channel = "email"
  /\ ~\E a \in sends : a.channel = "push"

MarkOps == {"markNotificationAsRead", "markAllNotificationsAsRead"}

\* C24: a call of the notification service never deletes a row of the log
\* and changes none, except that a mark-read call sets the read flag and the
\* read time: of the row it names, or of the unread rows of the user it names.
C24_LogAppendOnly ==
  [][\A r \in notification_logs :
       \E q \in notification_logs' :
         /\ q.id = r.id
         /\ [q EXCEPT !.is_read = r.is_read, !.read_at = r.read_at] = r
         /\ q # r =>
              /\ q.is_read
              /\ lastCall'.op \in MarkOps
              /\ lastCall'.op = "markNotificationAsRead" => r.id = lastCall'.id
              /\ lastCall'.op = "markAllNotificationsAsRead" =>
                   r.user_id = lastCall'.userId /\ ~r.is_read]_vars

\* C24 witness: markAllNotificationsAsRead marked a row of its user while
\* an unread row of the other user was in the log.
C24_Witness ==
  /\ lastCall.op = "markAllNotificationsAsRead"
  /\ \E r \in notification_logs :
       r.user_id = lastCall.userId /\ r.is_read /\ r.read_at = lastCall.at
  /\ \E r \in notification_logs : r.user_id # lastCall.userId /\ ~r.is_read

\* C25: a create with recurrence weekly, interval 1, count n stores exactly n
\* bookings of the seed's participants, 7 days apart from the seed window and
\* of the seed's duration.
C25_WeeklyCountExpands ==
  \A e \in log :
    (/\ e.path = "addSchedule"
     /\ e.row.recurrence.frequency = "weekly" /\ e.row.recurrence.interval = 1
     /\ e.row.recurrence.endType = "count") =>
      /\ \A k \in 0..(e.row.recurrence.count - 1) :
           \E r \in db :
             /\ parseISO(r.start_time) = parseISO(e.row.start_time) + k * 7 * DayLen
             /\ parseISO(r.end_time) = parseISO(e.row.end_time) + k * 7 * DayLen
             /\ r.participants = e.row.participants
      /\ Cardinality({r \in db : r.id >= e.id}) = e.row.recurrence.count

\* C26: whatever the notifications of a create meet, addSchedule returns
\* true with the booking in the table and once in the local list, and every
\* participant that is found and whose notify call does not raise gets its
\* notification, whatever happened to the other participants.
C26_NotifyFailuresIsolated ==
  lastCall.op = "addSchedule" =>
    /\ lastCall.result = "true"
    /\ Cardinality({r \in db : r.id = lastCall.id}) = 1
    /\ Cardinality({x \in schedules["c1"] : x.id = lastCall.id}) = 1
    /\ \A r \in db :
         r.id = lastCall.id =>
           \A u \in r.participants :
             (lastCall.envs[u].userOk /\ ~lastCall.envs[u].throws /\ lastCall.envs[u].logOk)
               => \E l \in notification_logs :
                    l.user_id = u /\ l.category = "schedule_created"

\* C26 witness: a create for two participants, the first not found or
\* raising, the email of the other failing.
C26_Witness ==
  /\ lastCall.op = "addSchedule"
  /\ \E r \in db :
       /\ r.id = lastCall.id
       /\ \E u \in r.participants : ~lastCall.envs[u].userOk \/ lastCall.envs[u].throws
       /\ \E u \in r.participants : \E a \in sends : a.userId = u /\ ~a.ok

\* C27: when the modal's checkConflicts and the context's
\* checkScheduleConflicts have run on the same candidate against the same
\* stored bookings, they report the same bookings.
C27_ChecksAgree ==
  \A c \in Clients :
    (/\ modalCheck[c].ran /\ modalCheck[c].ok /\ modalCheck[c].editId = 0
     /\ ctxCheck[c].ran /\ ctxCheck[c].checked
     /\ modalCheck[c].cand = ctxCheck[c].cand
     /\ convertedSchedules(modalCheck[c].against) = ctxCheck[c].against)
      => ids(modalCheck[c].result) = ids(ctxCheck[c].conflicts)

\* vocabulary: a reminder selects email / push (the push checkbox of the
\* modal stores 'notification')
selectsEmail(methods) == "email" \in methods

selectsPush(methods) == "push" \in methods \/ "notification" \in methods

\* C28: every row planned for a reminder has notification_type 'both' exactly
\* when the reminder selects email and push, 'push' exactly when it selects
\* push only, 'email' exactly when it selects email only; a reminder that
\* does not select email yields no row of type 'email'.
C28_TypeFollowsMethods ==
  (lastStmt.op \in {"INSERT", "UPDATE"} /\ lastStmt.NEWROW # {}) =>
    \A r \in created :
      \A i \in 1..Len(stmtRow.reminders) :
        r.reminder_time = stmtRow.reminders[i].time =>
          LET m == stmtRow.reminders[i].methods IN
          /\ r.notification_type = "both" <=> (selectsEmail(m) /\ selectsPush(m))
          /\ r.notification_type = "push" <=> (~selectsEmail(m) /\ selectsPush(m))
          /\ r.notification_type = "email" <=> (selectsEmail(m) /\ ~selectsPush(m))

\* vocabulary: the status the approver entries stand for
statusOfEntries(approvers) ==
  IF \E a \in approvers : a.status = "rejected" THEN "rejected"
  ELSE IF \A a \in approvers : a.status = "approved" THEN "approved"
  ELSE "pending"

\* C29: the stored status of a leave request with approvers is rejected iff
\* some approver entry is rejected, approved iff none is rejected and every
\* entry (step 1 and step 2) is approved, and pending otherwise.
C29_StatusFollowsEntries ==
  \A r \in leave_requests : r.approvers # {} => r.status = statusOfEntries(r.approvers)

\* C30: every decision that handleApproval has stored is in the stored
\* approver list: the entry of that approver carries it and is not pending.
C30_DecisionsKept ==
  \A d \in decisions :
    \A r \in leave_requests :
      r.id = d.id => \E a \in r.approvers : a.userId = d.userId /\ a.status = d.status

====
